---- MODULE Spec2Model ----
(***************************************************************************)
(* wisp: a single-node append-only ledger (src/src/blockchain.rs) and its  *)
(* demo caller (src/src/main.rs).                                          *)
(*                                                                         *)
(* Byte strings (Vec<u8>) and text (String) are sequences of small         *)
(* integers: a String is the sequence of its character codes.  A u128      *)
(* timestamp does not fit TLC's integers and is held as the sequence of    *)
(* its decimal digits.  The u64 nonce space is scaled to NonceBits bits.   *)
(***************************************************************************)
EXTENDS Integers, Sequences, FiniteSets, TLC

(***************************************************************************)
(* Bounds of the model.                                                    *)
(***************************************************************************)
\* width of the nonce type (u64 in the source)
NonceBits == 3
\* number of rayon worker threads that share one nonce search
NumWorkers == 2
\* transactions accepted by add_transaction in one run of Spec
MaxAdmitted == 2
\* blocks appended after genesis in one run of Spec
MaxBlocks == 2
\* transactions the demo caller submits before it asks for blocks (SpecMain)
MaxMainTx == 201

(***************************************************************************)
(* Program constants.                                                      *)
(***************************************************************************)
\* Blockchain::new: difficulty: 6
DIFFICULTY == 6
\* Blockchain::new: reward: 5
REWARD == 5
\* add_block: self.mempool.drain(..100.min(self.mempool.len()))
BATCH_CAP == 100
\* hex::encode of a SHA-256 digest: 64 characters
DIGEST_HEX_LEN == 64
\* the character '0'
CH_0 == 48

\* u64::MAX of the scaled nonce type
U64_MAX == 2^NonceBits - 1

(***************************************************************************)
(* Text and byte helpers.                                                  *)
(***************************************************************************)
Min(a, b) == IF a <= b THEN a ELSE b

RECURSIVE FlattenRange(_, _, _)
\* ss[lo] \o ... \o ss[hi], joined by halves
FlattenRange(ss, lo, hi) ==
    IF lo > hi THEN <<>>
    ELSE IF lo = hi THEN ss[lo]
    ELSE LET mid == (lo + hi) \div 2
         IN FlattenRange(ss, lo, mid) \o FlattenRange(ss, mid + 1, hi)

\* concatenation of a sequence of sequences
Flatten(ss) == FlattenRange(ss, 1, Len(ss))

RECURSIVE Decimal(_)
\* format!("{}", n) for an unsigned integer: its decimal digits as characters
Decimal(n) == IF n < 10 THEN <<CH_0 + n>> ELSE Decimal(n \div 10) \o <<CH_0 + (n % 10)>>

\* the decimal text of a timestamp held as its digits
DecimalDigits(ds) == [i \in 1..Len(ds) |-> CH_0 + ds[i]]

\* hex::encode of one nibble: '0'..'9', 'a'..'f'
HexChar(d) == IF d < 10 THEN CH_0 + d ELSE 87 + d

RECURSIVE LeBytes(_, _)
\* the count low bytes of n, least significant first
LeBytes(n, count) == IF count = 0 THEN <<>> ELSE <<n % 256>> \o LeBytes(n \div 256, count - 1)

\* u64::to_le_bytes: eight bytes, least significant first
to_le_bytes(n) == LeBytes(n, 8)

\* "0".repeat(n)
RepeatZero(n) == [i \in 1..n |-> CH_0]

\* str::starts_with
starts_with(s, prefix) ==
    /\ Len(prefix) <= Len(s)
    /\ \A i \in 1..Len(prefix) : s[i] = prefix[i]

(***************************************************************************)
(* SHA-256 followed by hex::encode.  The digest is a stand-in: a           *)
(* polynomial checksum of the input bytes, spread over 64 hex characters.  *)
(* Its five leading characters are '0', so that the scaled nonce space     *)
(* holds proofs at difficulty 6; from the sixth character on the digest    *)
(* depends on the input.                                                   *)
(***************************************************************************)
RECURSIVE MixRange(_, _, _)
\* <<checksum of bytes[lo..hi] started from 0, 33^(hi-lo+1)>> modulo 251, by halves
MixRange(bytes, lo, hi) ==
    IF lo > hi THEN <<0, 1>>
    ELSE IF lo = hi THEN <<bytes[lo] % 251, 33>>
    ELSE LET mid == (lo + hi) \div 2
             l == MixRange(bytes, lo, mid)
             r == MixRange(bytes, mid + 1, hi)
         IN <<(l[1] * r[2] + r[1]) % 251, (l[2] * r[2]) % 251>>

\* acc := 25; for b in bytes: acc := (acc * 33 + b) mod 251
Mix(bytes) ==
    LET r == MixRange(bytes, 1, Len(bytes))
    IN (25 * r[2] + r[1]) % 251

\* the i-th hex digit of the digest whose checksum is m
DigestNibble(m, i) ==
    IF i < 6 THEN 0
    ELSE IF i = 6 THEN m % 2
    ELSE IF i = 7 THEN (m \div 2) % 16
    ELSE IF i = 8 THEN (m \div 32) % 16
    ELSE (m * 7 + i) % 16

\* hex::encode of the digest whose checksum is m
HexDigest(m) == [i \in 1..DIGEST_HEX_LEN |-> HexChar(DigestNibble(m, i))]

\* hex::encode(Context::new(&SHA256).update(bytes).finish())
Sha256Hex(bytes) == HexDigest(Mix(bytes))

(***************************************************************************)
(* Key material (generate_keypair).  main.rs creates three identities; a   *)
(* key pair is named by its identity, its public key is a byte string.     *)
(* Ed25519 is modelled symbolically: a signature names the signing key     *)
(* and the signed message, and verifies under a public key exactly when   *)
(* it was made by that key's pair over the same message.                   *)
(***************************************************************************)
KeyPairs == {"miner", "user1", "user2"}

\* keypair.public_key().as_ref().to_vec()
public_key(k) == CASE k = "miner" -> <<10>> [] k = "user1" -> <<11>> [] k = "user2" -> <<12>>

\* the private half's mark in a signature made by k
SignerTag(k) == CASE k = "miner" -> 110 [] k = "user1" -> 111 [] k = "user2" -> 112

\* keypair.sign(&message)
Ed25519Sign(k, message) == <<SignerTag(k)>> \o message

\* seeded fault: any identity's signature over the message is taken
Ed25519Verify_any_key(pk, message, sig) ==
    \E k \in KeyPairs : sig = Ed25519Sign(k, message)

\* UnparsedPublicKey::new(&ED25519, public_key).verify(&message, &signature).is_ok()
Ed25519Verify(pk, message, sig) ==
    \E k \in KeyPairs : public_key(k) = pk /\ sig = Ed25519Sign(k, message)

(***************************************************************************)
(* Transaction                                                             *)
(***************************************************************************)
\* Transaction::new
Transaction_new(sender, receiver, amount) ==
    [sender |-> sender, receiver |-> receiver, amount |-> amount, signature |-> <<>>]

\* Transaction::get_message_for_signing
get_message_for_signing(tx) == tx.sender \o tx.receiver \o to_le_bytes(tx.amount)

\* seeded fault: the signed message leaves the amount out
sign_without_amount(tx, k) ==
    [tx EXCEPT !.signature = Ed25519Sign(k, tx.sender \o tx.receiver)]

\* Transaction::sign
sign(tx, k) == [tx EXCEPT !.signature = Ed25519Sign(k, get_message_for_signing(tx))]

\* Transaction::verify_signature
verify_signature(tx, pk) == Ed25519Verify(pk, get_message_for_signing(tx), tx.signature)

(***************************************************************************)
(* Block                                                                   *)
(***************************************************************************)
\* serde_json::to_string of a Transaction: {sender,receiver,amount,signature}
TxJson(tx) ==
    <<123>> \o tx.sender \o <<44>> \o tx.receiver \o <<44>> \o Decimal(tx.amount)
            \o <<44>> \o tx.signature \o <<125>>

\* serde_json::to_string of a Block: the seven fields in declaration order
BlockJson(b) ==
    <<123>> \o Decimal(b.index) \o <<44>> \o b.data \o <<44>> \o Decimal(b.nonce)
            \o <<44, 91>> \o Flatten([i \in 1..Len(b.transactions) |-> TxJson(b.transactions[i])])
            \o <<93, 44>> \o DecimalDigits(b.timestamp) \o <<44>> \o b.previous_hash
            \o <<44>> \o b.hash \o <<125>>

\* Block::calculate_hash
calculate_hash(b) == Sha256Hex(BlockJson(b))

\* seeded fault: the hash is taken before the transactions are filled in
Block_new_early_hash(index, data, nonce, transactions, timestamp, previous_hash) ==
    LET block == [index |-> index, data |-> data, nonce |-> nonce,
                  transactions |-> <<>>, timestamp |-> timestamp,
                  previous_hash |-> previous_hash, hash |-> <<>>]
    IN [block EXCEPT !.hash = calculate_hash(block), !.transactions = transactions]

\* Block::new: the hash is taken over the block with an empty hash field
Block_new(index, data, nonce, transactions, timestamp, previous_hash) ==
    LET block == [index |-> index, data |-> data, nonce |-> nonce,
                  transactions |-> transactions, timestamp |-> timestamp,
                  previous_hash |-> previous_hash, hash |-> <<>>]
    IN [block EXCEPT !.hash = calculate_hash(block)]

\* const GENESIS_TIMESTAMP: u128 = 1_690_000_000_000, as decimal digits
GENESIS_TIMESTAMP == <<1, 6, 9, 0, 0, 0, 0, 0, 0, 0, 0, 0, 0>>

\* "Genesis Block"
GENESIS_DATA == <<71, 101, 110, 101, 115, 105, 115, 32, 66, 108, 111, 99, 107>>

\* seeded fault: the genesis block is built with an empty previous_hash
genesis_unlinked == Block_new(0, GENESIS_DATA, 0, <<>>, GENESIS_TIMESTAMP, <<>>)

\* Block::genesis
genesis == Block_new(0, GENESIS_DATA, 0, <<>>, GENESIS_TIMESTAMP, <<CH_0>>)

(***************************************************************************)
(* State.                                                                  *)
(*   chain, mempool   the fields of Blockchain (difficulty and reward are  *)
(*                    fixed at construction: DIFFICULTY, REWARD)           *)
(*   pc               where the ledger's owner is: "idle" between calls,   *)
(*                    "loop" at the head of add_block's while loop,        *)
(*                    "mining" inside mine_block, "panicked" after the     *)
(*                    expect in mine_block failed                          *)
(*   frame            the arguments and locals of the running call         *)
(*   search           the parallel find_any of mine_block                  *)
(*   ret              the last value mine_block returned to a caller       *)
(*   main             the demo caller's position in main (SpecMain)        *)
(*   client           the locals of a caller that builds, signs and        *)
(*                    verifies one Transaction at a time (SpecTx)          *)
(* History, read by the properties only:                                   *)
(*   admitted         how many transactions add_transaction has accepted;  *)
(*                    the k-th accepted transaction has identity k         *)
(*   accepted         the transactions add_transaction has accepted, in    *)
(*                    the order of the calls                               *)
(*   mempool_ids      the identities of the mempool entries, in order      *)
(*   chain_ids        per block, the identities of its transactions; a     *)
(*                    reward transaction has identity 0                    *)
(*   last_op          the last call made on the ledger and its argument    *)
(***************************************************************************)
VARIABLES chain, mempool, pc, frame, search, ret, main, client,
          admitted, accepted, mempool_ids, chain_ids, last_op

vars == <<chain, mempool, pc, frame, search, ret, main, client,
          admitted, accepted, mempool_ids, chain_ids, last_op>>

Workers == 1..NumWorkers

\* Option::None of an Option<u64>
None == -1

NoTx == Transaction_new(<<>>, <<>>, 0)

NoFrame ==
    [caller |-> "none", data |-> <<>>, keypair |-> "miner", all_transactions |-> <<>>,
     batch_ids |-> <<>>, previous_index |-> 0, previous_hash |-> <<>>,
     timestamp |-> <<>>, entry_len |-> 0, entry_chain |-> 0, entry_mempool |-> <<>>]

NoSearch ==
    [last_nonce |-> 0, difficulty |-> 0, found |-> FALSE,
     next |-> [w \in Workers |-> 0],
     phase |-> [w \in Workers |-> "done"],
     item |-> [w \in Workers |-> None]]

\* a caller of Transaction that has not built one yet
NoClient ==
    [pc |-> "none", transaction |-> NoTx, signed_by |-> "none", public_key |-> <<>>,
     result |-> FALSE]

\* Blockchain::new
Blockchain_new ==
    /\ chain = <<genesis>>
    /\ mempool = <<>>

Init ==
    /\ Blockchain_new
    /\ pc = "idle"
    /\ frame = NoFrame
    /\ search = NoSearch
    /\ ret = None
    /\ main = [pc |-> "library", i |-> 0]
    /\ client = NoClient
    /\ admitted = 0
    /\ accepted = <<>>
    /\ mempool_ids = <<>>
    /\ chain_ids = << <<>> >>
    /\ last_op = [op |-> "new", tx |-> NoTx]

(***************************************************************************)
(* add_transaction                                                         *)
(***************************************************************************)
\* Blockchain::add_transaction
add_transaction(tx) ==
    /\ pc = "idle"
    /\ IF verify_signature(tx, tx.sender)
       THEN /\ mempool' = Append(mempool, tx)
            /\ admitted' = admitted + 1
            /\ accepted' = Append(accepted, tx)
            /\ mempool_ids' = Append(mempool_ids, admitted + 1)
            /\ last_op' = [op |-> "add_transaction", tx |-> tx]
       ELSE /\ last_op' = [op |-> "add_transaction_dropped", tx |-> tx]
            /\ UNCHANGED <<mempool, admitted, accepted, mempool_ids>>
    /\ UNCHANGED <<chain, pc, frame, search, ret, client, chain_ids>>

\* the mempool field is public: a holder of the ledger can write it directly,
\* here blockchain.mempool.push(tx); the entry was never accepted: identity -1
mempool_push(tx) ==
    /\ pc = "idle"
    /\ mempool' = Append(mempool, tx)
    /\ mempool_ids' = Append(mempool_ids, None)
    /\ last_op' = [op |-> "mempool.push", tx |-> tx]
    /\ UNCHANGED <<chain, pc, frame, search, ret, main, admitted, chain_ids, client, accepted>>

(***************************************************************************)
(* mine_block: (0..u64::MAX).into_par_iter().find_any(valid_proof).        *)
(* The range is split into one contiguous piece per worker.  A worker      *)
(* polls the shared found flag, tests its next candidate, and on a hit     *)
(* keeps the candidate and raises the flag; a worker that sees the flag    *)
(* raised, or has no candidate left, stops.  Two workers can both hit      *)
(* before either sees the flag; the pieces' results are then joined        *)
(* left-first.  A stopped worker's position is cleared: nothing reads it.  *)
(***************************************************************************)
\* seeded fault: the two nonces are formatted in the wrong order
valid_proof_swapped(last_nonce, nonce, difficulty) ==
    LET guess == Decimal(nonce) \o Decimal(last_nonce)
        guess_hash == Sha256Hex(guess)
    IN starts_with(guess_hash, RepeatZero(difficulty))

\* Blockchain::valid_proof
valid_proof(last_nonce, nonce, difficulty) ==
    LET guess == Decimal(last_nonce) \o Decimal(nonce)
        guess_hash == Sha256Hex(guess)
    IN starts_with(guess_hash, RepeatZero(difficulty))

\* the end, exclusive, of the range 0..u64::MAX that mine_block searches
search_end == U64_MAX

\* the piece of 0..search_end given to worker w: ChunkLo(w) <= n < ChunkHi(w)
ChunkLo(w) == ((w - 1) * search_end) \div NumWorkers
ChunkHi(w) == (w * search_end) \div NumWorkers

\* into_par_iter().find_any(...) begins
StartSearch(last_nonce, difficulty) ==
    [last_nonce |-> last_nonce, difficulty |-> difficulty, found |-> FALSE,
     next |-> [w \in Workers |-> ChunkLo(w)],
     phase |-> [w \in Workers |-> "poll"],
     item |-> [w \in Workers |-> None]]

\* a worker looks at the found flag and at what is left of its piece
WorkerPoll(w) ==
    /\ pc = "mining"
    /\ search.phase[w] = "poll"
    /\ IF search.found \/ search.next[w] >= ChunkHi(w)
       THEN search' = [search EXCEPT !.phase[w] = "done", !.next[w] = 0]
       ELSE search' = [search EXCEPT !.phase[w] = "test"]
    /\ UNCHANGED <<chain, mempool, pc, frame, ret, main,
                   admitted, mempool_ids, chain_ids, last_op, client, accepted>>

\* a worker applies the predicate to its next candidate
WorkerTest(w) ==
    /\ pc = "mining"
    /\ search.phase[w] = "test"
    /\ IF valid_proof(search.last_nonce, search.next[w], search.difficulty)
       THEN search' = [search EXCEPT !.item[w] = search.next[w], !.found = TRUE,
                                     !.phase[w] = "done", !.next[w] = 0]
       ELSE search' = [search EXCEPT !.next[w] = search.next[w] + 1, !.phase[w] = "poll"]
    /\ UNCHANGED <<chain, mempool, pc, frame, ret, main,
                   admitted, mempool_ids, chain_ids, last_op, client, accepted>>

SearchDone == \A w \in Workers : search.phase[w] = "done"

\* the joined result: the leftmost piece that holds a hit, or None
SearchResult ==
    IF \A w \in Workers : search.item[w] = None THEN None
    ELSE LET first == CHOOSE w \in Workers :
                        /\ search.item[w] # None
                        /\ \A v \in Workers : v < w => search.item[v] = None
         IN search.item[first]

\* a caller other than add_block calls mine_block(last_nonce, difficulty)
MineBlockCall(last_nonce, difficulty) ==
    /\ pc = "idle"
    /\ pc' = "mining"
    /\ frame' = [NoFrame EXCEPT !.caller = "mine_block"]
    /\ search' = StartSearch(last_nonce, difficulty)
    /\ last_op' = [op |-> "mine_block", tx |-> NoTx]
    /\ ret' = None
    /\ UNCHANGED <<chain, mempool, main, admitted, mempool_ids, chain_ids, client, accepted>>

\* mine_block returns Some(nonce) to that caller
MineBlockReturn ==
    /\ pc = "mining"
    /\ frame.caller = "mine_block"
    /\ SearchDone
    /\ SearchResult # None
    /\ ret' = SearchResult
    /\ pc' = "idle"
    /\ frame' = NoFrame
    /\ search' = NoSearch
    /\ UNCHANGED <<chain, mempool, main, admitted, mempool_ids, chain_ids, last_op, client, accepted>>

\* .expect("No valid nonce found!") on None
MineBlockPanic ==
    /\ pc = "mining"
    /\ SearchDone
    /\ SearchResult = None
    /\ pc' = "panicked"
    /\ UNCHANGED <<chain, mempool, frame, search, ret, main,
                   admitted, mempool_ids, chain_ids, last_op, client, accepted>>

(***************************************************************************)
(* add_block                                                               *)
(***************************************************************************)
\* seeded fault: the front entries are copied out and never removed
drain_keeps(v, k) == [taken |-> SubSeq(v, 1, k), rest |-> v]

\* seeded fault: the batch is taken from the back of the mempool
drain_back(v, k) == [taken |-> SubSeq(v, Len(v) - k + 1, Len(v)), rest |-> SubSeq(v, 1, Len(v) - k)]

\* self.mempool.drain(..k): the k front entries and what stays behind
drain(v, k) == [taken |-> SubSeq(v, 1, k), rest |-> SubSeq(v, k + 1, Len(v))]

\* seeded fault: the cap is one too high
batch_len_101(len) == Min(BATCH_CAP + 1, len)

\* seeded fault: no cap, a pass drains the whole mempool
batch_len_uncapped(len) == len

\* seeded fault: a pass of the loop drains nothing
batch_len_none(len) == Min(0, len)

\* how many entries one pass of the loop drains
batch_len(len) == Min(BATCH_CAP, len)

\* seeded fault: first() where last() is meant
latest_block_first == chain[1]

\* Blockchain::latest_block
latest_block == chain[Len(chain)]

\* the reward transaction of a block produced with keypair
reward_transaction(keypair) ==
    sign(Transaction_new(public_key(keypair), public_key(keypair), REWARD), keypair)

\* seeded fault: the reward transaction is put first
with_reward_first(limited_transactions, reward) == <<reward>> \o limited_transactions

\* seeded fault: the reward transaction takes the place of the last drained one
with_reward_overwriting(limited_transactions, reward) ==
    IF limited_transactions = <<>> THEN <<reward>>
    ELSE [limited_transactions EXCEPT ![Len(limited_transactions)] = reward]

\* all_transactions: the drained batch, then the reward transaction
with_reward(limited_transactions, reward) == Append(limited_transactions, reward)

\* seeded fault: the new block is inserted at the front
chain_push_front(v, new_block) == <<new_block>> \o v

\* self.chain.push(new_block)
chain_push(v, new_block) == Append(v, new_block)

\* seeded fault: the new block repeats the index of the chain's tail
next_index_same(previous_index) == previous_index

\* previous_index + 1, the index of the new block
next_index(previous_index) == previous_index + 1

\* seeded fault: the loop tests its condition after the first pass only
loop_condition_do_while == mempool # <<>> \/ Len(chain) = frame.entry_chain

\* while !self.mempool.is_empty()
loop_condition == mempool # <<>>

\* add_block(data, keypair) is called
AddBlockCall(data, keypair) ==
    /\ pc = "idle"
    /\ pc' = "loop"
    /\ frame' = [NoFrame EXCEPT !.caller = "add_block", !.data = data, !.keypair = keypair,
                                !.entry_len = Len(mempool), !.entry_chain = Len(chain),
                                !.entry_mempool = mempool]
    /\ last_op' = [op |-> "add_block", tx |-> NoTx]
    /\ UNCHANGED <<chain, mempool, search, ret, admitted, mempool_ids, chain_ids, client, accepted>>

\* the loop body up to the call of mine_block; timestamp is Utc::now()
AddBlockDrain(timestamp) ==
    /\ pc = "loop"
    /\ loop_condition
    /\ LET k == batch_len(Len(mempool))
           previous_block == latest_block
       IN /\ mempool' = drain(mempool, k).rest
          /\ mempool_ids' = drain(mempool_ids, k).rest
          /\ frame' = [frame EXCEPT
                         !.all_transactions =
                             with_reward(drain(mempool, k).taken, reward_transaction(frame.keypair)),
                         !.batch_ids = with_reward(drain(mempool_ids, k).taken, 0),
                         !.previous_index = previous_block.index,
                         !.previous_hash = previous_block.hash,
                         !.timestamp = timestamp]
          /\ search' = StartSearch(previous_block.nonce, DIFFICULTY)
    /\ pc' = "mining"
    /\ UNCHANGED <<chain, ret, main, admitted, chain_ids, last_op, client, accepted>>

\* mine_block returned: Block::new and self.chain.push
AddBlockPush ==
    /\ pc = "mining"
    /\ frame.caller = "add_block"
    /\ SearchDone
    /\ SearchResult # None
    /\ chain' = chain_push(chain, Block_new(next_index(frame.previous_index), frame.data, SearchResult,
                                            frame.all_transactions, frame.timestamp,
                                            frame.previous_hash))
    /\ chain_ids' = chain_push(chain_ids, frame.batch_ids)
    /\ frame' = [frame EXCEPT !.all_transactions = <<>>, !.batch_ids = <<>>,
                              !.previous_index = 0, !.previous_hash = <<>>,
                              !.timestamp = <<>>]
    /\ search' = NoSearch
    /\ pc' = "loop"
    /\ UNCHANGED <<mempool, ret, main, admitted, mempool_ids, last_op, client, accepted>>

\* the loop condition fails: add_block returns
AddBlockReturn ==
    /\ pc = "loop"
    /\ ~loop_condition
    /\ pc' = "idle"
    /\ frame' = NoFrame
    /\ UNCHANGED <<chain, mempool, search, ret, main, admitted, mempool_ids, chain_ids, last_op, client, accepted>>

(***************************************************************************)
(* Callers and their inputs.                                               *)
(***************************************************************************)
\* user1 pays user2, signed by user1
TxValid1 == sign(Transaction_new(public_key("user1"), public_key("user2"), 1), "user1")
\* user2 pays user1, signed by user2
TxValid2 == sign(Transaction_new(public_key("user2"), public_key("user1"), 2), "user2")
\* never signed
TxUnsigned == Transaction_new(public_key("user1"), public_key("user2"), 1)
\* signed by user1, but the sender field is user2's public key
TxWrongSigner == sign(Transaction_new(public_key("user2"), public_key("user1"), 1), "user1")

TxInputs == {TxValid1, TxValid2, TxUnsigned, TxWrongSigner}

\* "Block 1"
Labels == { <<66, 108, 111, 99, 107, 32, 49>> }

\* identities that ask for blocks
Producers == {"miner", "user1"}

\* the value the clock, Utc::now().timestamp_millis(), shows during a run, as
\* decimal digits
Timestamps == { <<1, 7, 0, 0, 0, 0, 0, 0, 0, 0, 0, 0, 0>> }

\* difficulties a caller passes to mine_block
Difficulties == {0, DIFFICULTY, DIFFICULTY + 1, DIGEST_HEX_LEN, DIGEST_HEX_LEN + 1}

RECURSIVE CountUnadmitted(_)
\* how many of the identities ids are None
CountUnadmitted(ids) ==
    IF ids = <<>> THEN 0
    ELSE (IF Head(ids) = None THEN 1 ELSE 0) + CountUnadmitted(Tail(ids))

\* entries now in the mempool or the chain that add_transaction never accepted
HeldUnadmitted == CountUnadmitted(mempool_ids) + CountUnadmitted(Flatten(chain_ids))

\* the run has room for one more mempool entry
Room == admitted + HeldUnadmitted < MaxAdmitted

AddTransaction ==
    \E tx \in TxInputs :
        /\ verify_signature(tx, tx.sender) => Room
        /\ add_transaction(tx)
        /\ UNCHANGED main

AddBlock ==
    \E data \in Labels, keypair \in Producers :
        /\ mempool # <<>> => Len(chain) - 1 < MaxBlocks
        /\ AddBlockCall(data, keypair)
        /\ UNCHANGED main

Drain == \E timestamp \in Timestamps : AddBlockDrain(timestamp)

Poll == \E w \in Workers : WorkerPoll(w)

Test == \E w \in Workers : WorkerTest(w)

(***************************************************************************)
(* Spec: any caller of add_transaction and add_block.                      *)
(***************************************************************************)
Next ==
    \/ AddTransaction
    \/ AddBlock
    \/ Drain
    \/ Poll
    \/ Test
    \/ AddBlockPush
    \/ AddBlockReturn

Spec == Init /\ [][Next]_vars

(***************************************************************************)
(* SpecExt: a caller that also uses the public mempool field.              *)
(***************************************************************************)
MempoolPush ==
    \E tx \in {TxUnsigned} :
        /\ Room
        /\ mempool_push(tx)

NextExt ==
    \/ Next
    \/ MempoolPush

SpecExt == Init /\ [][NextExt]_vars

(***************************************************************************)
(* SpecMine: a caller of mine_block alone.                                 *)
(***************************************************************************)
MineBlock ==
    \E last_nonce \in 0..U64_MAX, difficulty \in Difficulties :
        MineBlockCall(last_nonce, difficulty)

NextMine ==
    \/ MineBlock
    \/ Poll
    \/ Test
    \/ MineBlockReturn
    \/ MineBlockPanic

SpecMine == Init /\ [][NextMine]_vars

(***************************************************************************)
(* SpecMain: the demo caller, main.  It submits transaction i = 0, 1, ...  *)
(* (150 of them in the source; here any number up to MaxMainTx), then      *)
(* calls add_block("Block 1", miner_keypair) once and prints the chain.    *)
(***************************************************************************)
\* the transaction main builds and signs in pass i of its loop
MainTx(i) ==
    LET sender_keypair == IF i % 2 = 0 THEN "user1" ELSE "user2"
        receiver_public_key == IF i % 2 = 0 THEN public_key("user2") ELSE public_key("user1")
    IN sign(Transaction_new(public_key(sender_keypair), receiver_public_key, i + 1),
            sender_keypair)

MainSubmit ==
    /\ main.pc = "submit"
    /\ main.i < MaxMainTx
    /\ add_transaction(MainTx(main.i))
    /\ main' = [main EXCEPT !.i = main.i + 1]

MainAddBlock ==
    /\ main.pc = "submit"
    /\ AddBlockCall(<<66, 108, 111, 99, 107, 32, 49>>, "miner")
    /\ main' = [main EXCEPT !.pc = "print"]

InitMain ==
    /\ Blockchain_new
    /\ pc = "idle"
    /\ frame = NoFrame
    /\ search = NoSearch
    /\ ret = None
    /\ main = [pc |-> "submit", i |-> 0]
    /\ client = NoClient
    /\ admitted = 0
    /\ accepted = <<>>
    /\ mempool_ids = <<>>
    /\ chain_ids = << <<>> >>
    /\ last_op = [op |-> "new", tx |-> NoTx]

NextMain ==
    \/ MainSubmit
    \/ MainAddBlock
    \/ Drain
    \/ Poll
    \/ Test
    \/ AddBlockPush
    \/ AddBlockReturn

SpecMain == InitMain /\ [][NextMain]_vars

(***************************************************************************)
(* SpecTx: a caller of Transaction alone.  It builds a transaction, signs  *)
(* it with any of the identities, any number of times, and asks            *)
(* verify_signature about any byte string as the public key.  The ledger   *)
(* stays as Blockchain::new left it.                                       *)
(***************************************************************************)
\* byte strings passed as sender and as public key: the three identities'
\* keys, the empty string and a string that is no identity's key
KeyInputs == {public_key(k) : k \in KeyPairs} \cup {<<>>, <<99>>}

\* receivers and amounts the caller uses; 256 fills the second amount byte
ReceiverInputs == {public_key("user1"), public_key("user2")}
AmountInputs == {0, 1, 256}

\* let mut transaction = Transaction::new(sender, receiver, amount)
ClientNew ==
    \E sender \in KeyInputs, receiver \in ReceiverInputs, amount \in AmountInputs :
        /\ client' = [NoClient EXCEPT !.pc = "built",
                                      !.transaction = Transaction_new(sender, receiver, amount)]
        /\ UNCHANGED <<chain, mempool, pc, frame, search, ret, main,
                       admitted, accepted, mempool_ids, chain_ids, last_op>>

\* transaction.sign(&keypair)
ClientSign ==
    \E k \in KeyPairs :
        /\ client.pc \in {"built", "signed", "verified"}
        /\ client' = [client EXCEPT !.pc = "signed",
                                    !.transaction = sign(client.transaction, k),
                                    !.signed_by = k]
        /\ UNCHANGED <<chain, mempool, pc, frame, search, ret, main,
                       admitted, accepted, mempool_ids, chain_ids, last_op>>

\* let result = transaction.verify_signature(&public_key)
ClientVerify ==
    \E pk \in KeyInputs :
        /\ client.pc \in {"built", "signed"}
        /\ client' = [client EXCEPT !.pc = "verified",
                                    !.public_key = pk,
                                    !.result = verify_signature(client.transaction, pk)]
        /\ UNCHANGED <<chain, mempool, pc, frame, search, ret, main,
                       admitted, accepted, mempool_ids, chain_ids, last_op>>

NextTx ==
    \/ ClientNew
    \/ ClientSign
    \/ ClientVerify

SpecTx == Init /\ [][NextTx]_vars

(***************************************************************************)
(* SpecMainFair: main on a machine that keeps running it.  The thread that *)
(* called add_block is not suspended for ever between two statements, and  *)
(* rayon's pool gives every worker of a search its turn; nothing obliges   *)
(* main's own loop to go on, so its steps carry no fairness.               *)
(***************************************************************************)
\* the states in which AddBlockPush can take a step: its guard
AddBlockPushEnabled ==
    /\ pc = "mining"
    /\ frame.caller = "add_block"
    /\ SearchDone
    /\ SearchResult # None

\* weak fairness of every step of add_block and of its search.  For
\* AddBlockPush it is written out, WF_vars(A) being
\* []<>~(ENABLED <<A>>_vars) \/ []<><<A>>_vars, with the guard as the enabling
\* condition: a step of AddBlockPush always lengthens the chain.
Fairness ==
    /\ WF_vars(Drain)
    /\ WF_vars(Poll)
    /\ WF_vars(Test)
    /\ ([]<>(~AddBlockPushEnabled) \/ []<><<AddBlockPush>>_vars)
    /\ WF_vars(AddBlockReturn)

SpecMainFair == SpecMain /\ Fairness

(***************************************************************************)
(* Properties.                                                             *)
(***************************************************************************)
RECURSIVE Occurrences(_, _)
\* how often x occurs in the sequence s
Occurrences(s, x) ==
    IF s = <<>> THEN 0
    ELSE (IF Head(s) = x THEN 1 ELSE 0) + Occurrences(Tail(s), x)

IsPrefix(s, t) == Len(s) <= Len(t) /\ SubSeq(t, 1, Len(s)) = s

CeilDiv(n, d) == (n + d - 1) \div d

\* In Spec and SpecMain the search of add_block always finds a nonce: the
\* digest's sixth digit is the parity of a checksum that grows by one from
\* nonce 0 to nonce 1.
NoPanic == pc # "panicked"

\* C1: every block after genesis names the hash of the block before it:
\* chain[i].previous_hash = chain[i-1].hash.
C1_PreviousHashLinks ==
    \A i \in 2..Len(chain) : chain[i].previous_hash = chain[i - 1].hash

\* two blocks were appended, so a link between two mined blocks exists
C1_Witness == Len(chain) >= 3 /\ pc = "idle"

\* C2: an accepted transaction is, at any time, in exactly one place: the
\* mempool, the batch of the block being mined, or one block of the chain; it
\* leaves the mempool in the step that puts it into the batch, and between
\* loop passes no batch is in flight.
C2_DrainedOnce ==
    /\ \A id \in 1..admitted :
          Occurrences(mempool_ids, id) + Occurrences(frame.batch_ids, id)
          + Occurrences(Flatten(chain_ids), id) = 1
    /\ pc \in {"idle", "loop"} => frame.batch_ids = <<>>
    /\ Len(mempool_ids) = Len(mempool)
    /\ Len(chain_ids) = Len(chain)
    /\ \A i \in 1..Len(chain) : Len(chain_ids[i]) = Len(chain[i].transactions)

\* two accepted transactions ended up in two different blocks
C2_Witness ==
    /\ admitted = 2 /\ Len(chain) = 3 /\ mempool = <<>> /\ pc = "idle"
    /\ chain_ids[2] = <<1, 0>> /\ chain_ids[3] = <<2, 0>>

\* C3: when add_block leaves its loop after a call with n >= 1 pending
\* transactions, it has appended ceil(n/100) blocks, each but the last of 100
\* mempool transactions and a reward, the last of the remaining ones and a
\* reward, and the mempool is empty; it is still empty once the call returned.
C3_BatchCap ==
    /\ (pc = "loop" /\ mempool = <<>> /\ frame.entry_len >= 1) =>
          LET n == frame.entry_len
              blocks == CeilDiv(n, 100)
          IN /\ Len(chain) = frame.entry_chain + blocks
             /\ \A j \in 1..blocks :
                   LET ids == chain_ids[frame.entry_chain + j]
                       txs == chain[frame.entry_chain + j].transactions
                       drained == IF j < blocks THEN 100 ELSE n - 100 * (blocks - 1)
                   IN /\ Len(txs) = drained + 1
                      /\ ids[Len(ids)] = 0
                      /\ \A q \in 1..drained : ids[q] > 0
    /\ (pc = "idle" /\ last_op.op = "add_block") => mempool = <<>>

\* the demo's case: 150 pending, two blocks of 100 + 1 and 50 + 1
C3_Witness ==
    /\ pc = "idle" /\ main.pc = "print" /\ main.i = 150
    /\ Len(chain) = 3 /\ mempool = <<>>
    /\ Len(chain[2].transactions) = 101
    /\ Len(chain[3].transactions) = 51

\* C4: the chain always starts with the genesis block, and every step keeps
\* the chain it found as a prefix of the chain it leaves.
C4_AppendOnly ==
    /\ [](Len(chain) >= 1 /\ chain[1] = genesis)
    /\ [][IsPrefix(chain, chain')]_vars

\* a block was appended to a chain that already held a mined block
C4_Witness == Len(chain) = 3

\* a transaction whose signature is empty, or was made by an identity whose
\* public key is not the sender field
C5_Unverifiable(tx) ==
    \/ tx.signature = <<>>
    \/ \E k \in KeyPairs :
          /\ tx.signature = Ed25519Sign(k, get_message_for_signing(tx))
          /\ public_key(k) # tx.sender

\* C5: a call of add_transaction with such a transaction changes neither
\* the mempool nor the chain and returns normally.
C5_InvalidDropped ==
    [][(/\ pc = "idle"
        /\ last_op'.op \in {"add_transaction", "add_transaction_dropped"}
        /\ C5_Unverifiable(last_op'.tx))
       => (mempool' = mempool /\ chain' = chain /\ pc' = "idle")]_vars

\* the transaction signed by user1 under user2's name was just dropped from a
\* ledger that holds a pending transaction
C5_Witness ==
    /\ last_op = [op |-> "add_transaction_dropped", tx |-> TxWrongSigner]
    /\ mempool = <<TxValid1>>

\* C6: every mempool entry carries a signature that verifies against its own
\* sender field over sender || receiver || amount.
C6_MempoolVerified ==
    \A i \in 1..Len(mempool) :
        Ed25519Verify(mempool[i].sender,
                      mempool[i].sender \o mempool[i].receiver \o to_le_bytes(mempool[i].amount),
                      mempool[i].signature)

\* C7: a step changes the mempool or the chain only as part of
\* add_transaction (an accepted transaction is appended to the mempool) or of
\* add_block (the loop drains the mempool's front, or appends a block).
C7_OnlyLedgerOperations ==
    [][(mempool' # mempool \/ chain' # chain) =>
         \/ /\ pc = "idle"
            /\ last_op'.op = "add_transaction"
            /\ mempool' = Append(mempool, last_op'.tx)
            /\ chain' = chain
         \/ /\ pc \in {"loop", "mining"}
            /\ frame.caller = "add_block"
            /\ last_op' = last_op
            /\ last_op.op = "add_block"]_vars

\* the digest of the text of last_nonce followed by the text of nonce starts
\* with difficulty characters '0'
ProofHolds(last_nonce, nonce, difficulty) ==
    LET digest == Sha256Hex(Decimal(last_nonce) \o Decimal(nonce))
    IN /\ difficulty <= Len(digest)
       /\ \A i \in 1..difficulty : digest[i] = CH_0

\* C8: whatever the workers' interleaving, a finished search that holds a
\* nonce holds one that proves the work for the search's own arguments, and
\* every block after genesis stores a nonce that proves the work over the
\* nonce of the block before it at difficulty 6.
C8_MinedNonceValid ==
    /\ (pc = "mining" /\ SearchDone /\ SearchResult # None) =>
          ProofHolds(search.last_nonce, SearchResult, search.difficulty)
    /\ \A i \in 2..Len(chain) : ProofHolds(chain[i - 1].nonce, chain[i].nonce, 6)

\* the search for the second block ended with hits in two workers at once
C8_Witness ==
    /\ pc = "mining" /\ SearchDone /\ Len(chain) = 2
    /\ \E v, w \in Workers : v # w /\ search.item[v] # None /\ search.item[w] # None

\* C9: mine_block panics only when no nonce of the whole nonce type,
\* 0..=u64::MAX, proves the work.
C9_PanicsOnlyWhenNoNonce ==
    pc = "panicked" =>
        \A nonce \in 0..U64_MAX :
            ~ProofHolds(search.last_nonce, nonce, search.difficulty)

\* C10: the step that appends a block appends one whose last transaction is
\* the reward: from the producer's public key to itself, of amount 5, with a
\* signature that verifies under that key; it is the only transaction of the
\* block that add_block made.
C10_RewardLast ==
    [][Len(chain') > Len(chain) =>
         LET txs == chain'[Len(chain')].transactions
             ids == chain_ids'[Len(chain')]
             reward == txs[Len(txs)]
             pk == public_key(frame.keypair)
         IN /\ Len(chain') = Len(chain) + 1
            /\ Len(txs) >= 1
            /\ reward.sender = pk
            /\ reward.receiver = pk
            /\ reward.amount = 5
            /\ reward.signature = Ed25519Sign(frame.keypair, pk \o pk \o to_le_bytes(5))
            /\ Ed25519Verify(pk, pk \o pk \o to_le_bytes(5), reward.signature)
            /\ ids[Len(ids)] = 0
            /\ \A q \in 1..(Len(ids) - 1) : ids[q] # 0]_vars

\* user1 produced a block of two drained transactions and its reward
C10_Witness ==
    /\ Len(chain) = 2
    /\ Len(chain[2].transactions) = 3
    /\ chain[2].transactions[3].sender = public_key("user1")
    /\ chain_ids[2] = <<1, 2, 0>>

\* the transactions of block b that came from the mempool, in block order;
\* ids are the identities of the block's transactions, 0 for the reward
Drained(b, ids) ==
    LET idx == SelectSeq([q \in 1..Len(ids) |-> q], LAMBDA q : ids[q] # 0)
    IN [j \in 1..Len(idx) |-> b.transactions[idx[j]]]

\* the mempool transactions of blocks lo..hi of the chain, in chain order
DrainedOf(lo, hi) ==
    Flatten([j \in 1..(hi - lo + 1) |-> Drained(chain[lo + j - 1], chain_ids[lo + j - 1])])

\* C11: the mempool is a FIFO queue: a step in which add_transaction accepts
\* a transaction appends it at the mempool's tail, and when add_block leaves
\* its loop the mempool transactions of the blocks it appended, read in chain
\* order, are the mempool as it was when add_block was called.
C11_FifoDrain ==
    /\ [][admitted' # admitted =>
            /\ Len(mempool') = Len(mempool) + 1
            /\ SubSeq(mempool', 1, Len(mempool)) = mempool
            /\ mempool'[Len(mempool')] = last_op'.tx]_vars
    /\ []((pc = "loop" /\ mempool = <<>> /\ frame.caller = "add_block") =>
            DrainedOf(frame.entry_chain + 1, Len(chain)) = frame.entry_mempool)

\* the demo's 150 transactions were drained into two blocks: the first block
\* starts with transaction 0, the second with transaction 100
C11_Witness ==
    /\ pc = "loop" /\ mempool = <<>> /\ frame.entry_len = 150
    /\ Len(chain) = 3
    /\ chain[2].transactions[1] = MainTx(0)
    /\ chain[3].transactions[1] = MainTx(100)
    /\ chain[3].transactions[50] = MainTx(149)

\* C12: a call of add_block ends, with the mempool empty at its return; a
\* pass of its loop begins by taking at least one transaction out of the
\* mempool and ends by appending one block, and no other step of the call
\* touches the chain.
C12_AddBlockTerminates ==
    /\ (pc = "loop") ~> (pc = "idle" /\ mempool = <<>> /\ last_op.op = "add_block")
    /\ [][(pc = "loop" /\ pc' = "mining") => Len(mempool') < Len(mempool)]_vars
    /\ [][(pc = "mining" /\ pc' = "loop") =>
            (Len(chain') = Len(chain) + 1 /\ mempool' = mempool)]_vars
    /\ [][(pc \in {"loop", "mining"} /\ ~(pc = "mining" /\ pc' = "loop")) =>
            chain' = chain]_vars

\* add_block returned after three passes of its loop
C12_Witness ==
    /\ pc = "idle" /\ last_op.op = "add_block" /\ main.i = 201
    /\ Len(chain) = 4 /\ mempool = <<>>

\* the hash recomputed from the stored fields of b, its hash field cleared
Rehash(b) == calculate_hash([b EXCEPT !.hash = <<>>])

\* C13: for every block of the chain, genesis included, the hash recomputed
\* from its stored fields with the hash field cleared is the stored hash; two
\* blocks that agree on all other fields therefore store the same hash.
C13_HashRoundTrip ==
    /\ \A i \in 1..Len(chain) : Rehash(chain[i]) = chain[i].hash
    /\ \A i, j \in 1..Len(chain) :
          [chain[i] EXCEPT !.hash = <<>>] = [chain[j] EXCEPT !.hash = <<>>]
              => chain[i].hash = chain[j].hash

\* the chain holds genesis and two mined blocks, each with a mempool
\* transaction and a reward, and the three stored hashes differ
C13_Witness ==
    /\ Len(chain) = 3 /\ pc = "idle"
    /\ \A i \in 2..3 : Len(chain[i].transactions) = 2
    /\ chain[1].hash # chain[2].hash
    /\ chain[2].hash # chain[3].hash
    /\ chain[1].hash # chain[3].hash

\* C14: when verify_signature is asked about the transaction's own sender,
\* it answers true if the transaction was last signed by the identity whose
\* public key is the sender, and false if the signature is empty or was made
\* by an identity whose public key is not the sender; it answers in every
\* case.
C14_SignThenVerify ==
    /\ client.result \in BOOLEAN
    /\ (client.pc = "verified" /\ client.public_key = client.transaction.sender) =>
          /\ (client.signed_by # "none"
              /\ public_key(client.signed_by) = client.transaction.sender)
                 => client.result = TRUE
          /\ (client.transaction.signature = <<>>
              \/ (client.signed_by # "none"
                  /\ public_key(client.signed_by) # client.transaction.sender))
                 => client.result = FALSE

\* user1's transaction of amount 256, signed by user2 and then by user1, was
\* verified against its sender
C14_Witness ==
    /\ client.pc = "verified"
    /\ client.signed_by = "user1"
    /\ client.transaction.sender = public_key("user1")
    /\ client.transaction.amount = 256
    /\ client.public_key = client.transaction.sender
    /\ client.result = TRUE

\* C15: the ledger starts with a chain of one block and an empty mempool,
\* and in every state the first block has index 0, nonce 0, previous_hash
\* "0", no transactions and the timestamp 1690000000000.
C15_Genesis ==
    /\ Len(chain) = 1
    /\ mempool = <<>>
    /\ [](/\ Len(chain) >= 1
          /\ chain[1].index = 0
          /\ chain[1].nonce = 0
          /\ chain[1].previous_hash = <<48>>
          /\ chain[1].transactions = <<>>
          /\ chain[1].timestamp = <<1, 6, 9, 0, 0, 0, 0, 0, 0, 0, 0, 0, 0>>)

\* two blocks were mined after genesis by two calls of add_block
C15_Witness ==
    /\ Len(chain) = 3 /\ chain[3].index = 2
    /\ admitted = 2 /\ pc = "idle"
    /\ chain[1].previous_hash = <<48>>

\* C16: the block at position i of the chain (counting from 0) has index i,
\* and a step that appends a block gives it the index of the old tail plus 1.
C16_IndexIsPosition ==
    /\ [](\A i \in 1..Len(chain) : chain[i].index = i - 1)
    /\ [][Len(chain') > Len(chain) =>
            chain'[Len(chain')].index = chain[Len(chain)].index + 1]_vars

\* the second mined block was just appended, by a call that found one
\* mined block in the chain
C16_Witness ==
    /\ pc = "loop" /\ frame.entry_chain = 2
    /\ Len(chain) = 3 /\ chain[2].index = 1 /\ chain[3].index = 2

\* C17: a call of add_block that finds the mempool empty returns without
\* mining: neither the step that makes the call nor any step of the call
\* changes the chain or the mempool, begins a search, or builds a batch with
\* a reward transaction.
C17_EmptyMempoolNoBlock ==
    [][((pc = "idle" /\ pc' = "loop" /\ mempool = <<>>)
        \/ (pc = "loop" /\ frame.caller = "add_block" /\ frame.entry_len = 0)) =>
          /\ chain' = chain
          /\ mempool' = mempool
          /\ pc' \in {"loop", "idle"}
          /\ search' = NoSearch
          /\ frame'.all_transactions = <<>>]_vars

\* add_block was called with an empty mempool on a chain that holds one
\* mined block
C17_Witness ==
    /\ pc = "loop" /\ frame.caller = "add_block" /\ frame.entry_len = 0
    /\ Len(chain) = 2 /\ mempool = <<>>

\* C18: whenever no call is running, the transactions add_transaction has
\* accepted, in the order of acceptance, are the mempool transactions of the
\* chain's blocks in chain order followed by the mempool.
C18_Conservation ==
    pc = "idle" =>
        /\ Len(accepted) = admitted
        /\ accepted = DrainedOf(1, Len(chain)) \o mempool

\* of two accepted transactions the first is in a block and the second is
\* pending
C18_Witness ==
    /\ pc = "idle" /\ Len(accepted) = 2
    /\ Len(chain) = 2 /\ chain[2].transactions[1] = accepted[1]
    /\ mempool = <<accepted[2]>>

\* C19: every block after genesis holds between 2 and 101 transactions:
\* between 1 and 100 from the mempool, then exactly one reward transaction.
C19_BlockSize ==
    \A i \in 2..Len(chain) :
        LET n == Len(chain[i].transactions)
            ids == chain_ids[i]
        IN /\ n >= 2 /\ n <= 101
           /\ Len(ids) = n
           /\ ids[n] = 0
           /\ \A q \in 1..(n - 1) : ids[q] # 0

\* 101 pending transactions gave a block of 101 and a block of 2: the
\* largest and the smallest block
C19_Witness ==
    /\ pc = "idle" /\ main.i = 101 /\ Len(chain) = 3
    /\ Len(chain[2].transactions) = 101
    /\ Len(chain[3].transactions) = 2

====
